---- MODULE Spec2Model ----
(***************************************************************************)
(* Model of the concurrent-motion engine of on-screen-display-v2:          *)
(*   script/moving_node.py  MovingNode (updater threads, lock, mutators)   *)
(*   script/upper_screen.py RequestHandler.handle (control commands),      *)
(*                          OnScreenPainter._main_loop (render thread)     *)
(*   script/path_map.py     PathMap.draw_node_at_distance (snapshot)       *)
(*                                                                         *)
(* Units: time in clock ticks, speed in tenths (speed 1.3 is 13), distance *)
(* in tenths x speed_unit x ticks, so every quantity is an integer.        *)
(***************************************************************************)
EXTENDS Integers, Sequences, FiniteSets, TLC

\* ---- bounds of the model -------------------------------------------------
MaxObjs == 3      \* MovingNode objects ever constructed (two at start-up)
MaxLoops == 2     \* updater threads one object can have alive at once
MaxCmds == 2      \* start/stop requests in one run (or one request of another kind)
MaxTime == 2      \* clock readings 0..MaxTime
MaxReg == 3       \* append/remove requests of a run of RegistrySpec
MaxPoints == 4    \* checkpoints handed to setup_road in PathSpec
MaxEffectTime == 6   \* times handed to a Bomb in EffectSpec, in half seconds
MaxEmitTime == 3     \* clock readings and due times of EmitSpec
MaxSegs == 3         \* curves of a road in RowsSpec
MaxRows == 3         \* rows of large_table in LookupSpec and TrailSpec
MaxTickTime == 5     \* clock readings of TickSpec, in half seconds
MaxTicks == 2        \* passes of the render loop in TickSpec
MaxQueue == 2        \* samples waiting in an entity's distance queue
MaxIterTicks == 2    \* passes of the render loop in IterSpec
MaxNodeTime == 3     \* clock readings 0..MaxNodeTime of NodeSpec
MaxGo == 3           \* go() calls in one run of NodeSpec
MaxAfter == 2        \* increments counted after a stop() in NodeSpec

\* ---- program constants ---------------------------------------------------
SpeedMin == 1       \* speed_limit[0] = 0.1
SpeedMax == 100     \* speed_limit[1] = 10
DefaultSpeed == 10  \* MovingNode.speed = 1
DefaultLamb == 3    \* BombThrower.lamb = 3
InitUnit == 2       \* pm.speed_unit of the start-up path (setup_road_randomly)

Objs == 1..MaxObjs
Names == 1..MaxObjs          \* name i stands for 'mn<i>'
Slots == 1..MaxLoops
Wildcard == 0                \* the name '*'
NoObj == 0
NoTime == -100               \* t_throw = None

CmdNames == {1}              \* message['name'] of the requests that name a node
SpeedInputs == {-5, 1000}    \* message['speed'], tenths
AppendSpeeds == {25}         \* random.uniform(0.5, 2.5) rounded to 0.1
AppendColors == {"red"}      \* random_rgba_color()
UpdateColors == {"red"}      \* message['color']
LambInputs == {0}            \* message['lambda']
PathUnits == {3}             \* speed_unit of a regenerated path
UnknownNames == {3}          \* message['name'] of requests that may name no node
RegenInputs == {<<50>>, <<10, 90>>}   \* message['checkpoints'], x in hundredths, y = 0
ThrowDelays == {1}           \* -ln(u)/|lamb| in ticks

VARIABLES
    now,          \* time.time()
    pmUnit,       \* pm.speed_unit
    pool,         \* moving_nodes_pool: name -> object (NoObj: absent)
    nextObj,      \* next MovingNode object to be constructed
    speed, speedUnit, running, distance, lamb, tThrow, color, \* object fields
    pc, lt0, lds, ltmp,   \* updater threads: position, locals t0, ds, LOAD of distance + ds
    lock,         \* MovingNode._rlock (class attribute)
    hOps, hHold, cmds,    \* request handler thread
    rpc, rObj,    \* render thread
    base, dirty, stopPending,  \* history variables
    pmGen,        \* which setup_road call wrote pm.total_curve_length, pm.large_table,
                  \* pm.road_map_image (0: the start-up path)
    rSeen,        \* the generations of the pm data the render thread read in its tick
    req,          \* the last request received and the response sent for it
    fx            \* argument and result of the function under test (function specifications)

vars == <<now, pmUnit, pool, nextObj, speed, speedUnit, running, distance, lamb,
          tThrow, color, pc, lt0, lds, ltmp, lock, hOps, hHold, cmds, rpc, rObj,
          base, dirty, stopPending, pmGen, rSeen, req, fx>>

objVars == <<speed, speedUnit, running, distance, lamb, tThrow, color>>
loopVars == <<pc, lt0, lds, ltmp>>
handlerVars == <<hOps, hHold, cmds>>
renderVars == <<rpc, rObj>>
histVars == <<base, dirty, stopPending>>
\* everything but fx: the state of the running program
progVars == <<now, pmUnit, pool, nextObj, objVars, loopVars, lock, handlerVars,
              renderVars, histVars, pmGen, rSeen, req>>

\* ---- helpers -------------------------------------------------------------
Min(a, b) == IF a < b THEN a ELSE b
Max(a, b) == IF a > b THEN a ELSE b

Free == [who |-> <<"none", 0, 0>>, obj |-> NoObj]
LoopId(o, k) == <<"loop", o, k>>
HandlerId == <<"handler", 0, 0>>
RenderId == <<"render", 0, 0>>
NoBase == [d |-> -1, t |-> -1]
Gen0 == [len |-> 0, table |-> 0, image |-> 0]
Unread == -1
NoFx == [kind |-> "none"]

\* variant: acquire never blocks
CanAcquire_NeverBlocks(l, t) == TRUE

\* RLock.acquire: free, or already owned by the calling thread
CanAcquire(l, t) == l = Free \/ l.who = t

\* lines 150-151: finally: self._rlock.release(), on the normal and on the
\* exceptional way out of the with block
Release_Held(l) == l
Release(l) == Free

\* variant: the lower limit is not applied
ClampSpeed_NoFloor(v) == Min(SpeedMax, v)

\* set_speed: max(speed_limit[0], min(speed_limit[1], speed))
ClampSpeed(v) == Max(SpeedMin, Min(SpeedMax, v))

\* variant: speed_unit is left out of the product
Increment_NoUnit(s, u, dt) == s * dt

\* ds = self.speed * self.speed_unit * dt
Increment(s, u, dt) == s * u * dt

\* variant: the finally clause leaves running as it is
RunningAfterFinally_Kept(r) == r

\* finally: self.running = False
RunningAfterFinally(r) == FALSE

PoolObjs == {pool[n] : n \in {m \in Names : pool[m] # NoObj}}
Alive(o) == {k \in Slots : pc[o][k] # "idle"}
InLock == {"time", "read", "write"}

\* moving_nodes_pool.values(): insertion order, which is construction order
RECURSIVE SeqOfSet(_)
SeqOfSet(S) == IF S = {} THEN <<>>
               ELSE LET m == CHOOSE x \in S : \A y \in S : x <= y
                    IN <<m>> \o SeqOfSet(S \ {m})

Targets(n) == IF n = Wildcard THEN PoolObjs
              ELSE IF pool[n] # NoObj THEN {pool[n]} ELSE {}

\* for i in range(1, 1000000): first name not in the pool
FirstFreeName_Counter == nextObj
FirstFreeName == CHOOSE n \in Names : pool[n] = NoObj /\ \A m \in Names : m < n => pool[m] # NoObj

FreeSlot(o) == CHOOSE k \in Slots : pc[o][k] = "idle" /\ \A j \in Slots : j < k => pc[o][j] # "idle"

\* ---- initial state: upper_screen.py module level ------------------------
InitProgram ==
    /\ now = 0
    /\ pmUnit = InitUnit
    /\ pool = [n \in Names |-> IF n <= 2 THEN n ELSE NoObj]
    /\ nextObj = 3
    /\ speed = [o \in Objs |-> IF o = 1 THEN 13 ELSE IF o = 2 THEN 7 ELSE DefaultSpeed]
    /\ speedUnit = [o \in Objs |-> InitUnit]
    /\ running = [o \in Objs |-> FALSE]
    /\ distance = [o \in Objs |-> 0]
    /\ lamb = [o \in Objs |-> DefaultLamb]
    /\ tThrow = [o \in Objs |-> NoTime]
    /\ color = [o \in Objs |-> IF o = 1 THEN "yellow" ELSE "red"]
    /\ pc = [o \in Objs |-> [k \in Slots |-> IF o <= 2 /\ k = 1 THEN "start" ELSE "idle"]]
    /\ lt0 = [o \in Objs |-> [k \in Slots |-> 0]]
    /\ lds = [o \in Objs |-> [k \in Slots |-> 0]]
    /\ ltmp = [o \in Objs |-> [k \in Slots |-> 0]]
    /\ lock = Free
    /\ hOps = <<>>
    /\ hHold = FALSE
    /\ cmds = 0
    /\ rpc = "tick"
    /\ rObj = NoObj
    /\ base = [o \in Objs |-> NoBase]
    /\ dirty = [o \in Objs |-> {}]
    /\ stopPending = [o \in Objs |-> FALSE]
    /\ pmGen = Gen0
    /\ rSeen = [image |-> Unread, len |-> Unread]
    /\ req = [kind |-> "none", known |-> TRUE, cps |-> <<>>, pool |-> pool, status |-> "none"]

Init == InitProgram /\ fx = NoFx

\* ---- the clock -----------------------------------------------------------
Tick ==
    /\ now < MaxTime
    /\ now' = now + 1
    /\ UNCHANGED <<pmUnit, pool, nextObj, objVars, loopVars, lock, handlerVars,
                   renderVars, histVars>>
    /\ UNCHANGED <<pmGen, rSeen, req, fx>>

\* ---- MovingNode._moving_loop --------------------------------------------
\* lines 161-168: the running check only logs; running = True;
\* compute_next_t_throw() (outside the try: lamb = 0 raises ZeroDivisionError
\* and the thread dies with running left True); t0 = time.time()
LoopStart(o, k) ==
    /\ pc[o][k] = "start"
    /\ running' = [running EXCEPT ![o] = TRUE]
    /\ IF lamb[o] = 0
       THEN /\ pc' = [pc EXCEPT ![o][k] = "idle"]
            /\ UNCHANGED <<tThrow, lt0>>
            /\ base' = [base EXCEPT ![o] = NoBase]
       ELSE /\ \E d \in ThrowDelays :
                tThrow' = [tThrow EXCEPT ![o] = now + (IF lamb[o] > 0 THEN d ELSE -d)]
            /\ lt0' = [lt0 EXCEPT ![o][k] = now]
            /\ pc' = [pc EXCEPT ![o][k] = "test"]
            /\ base' = [base EXCEPT ![o] = IF Alive(o) = {k}
                                           THEN [d |-> distance[o], t |-> now]
                                           ELSE NoBase]
    /\ UNCHANGED <<now, pmUnit, pool, nextObj, speed, speedUnit, distance, lamb, color,
                   lds, ltmp, lock, handlerVars, renderVars, dirty, stopPending>>
    /\ UNCHANGED <<pmGen, rSeen, req, fx>>

\* line 172: while self.running
LoopTest(o, k) ==
    /\ pc[o][k] = "test"
    /\ pc' = [pc EXCEPT ![o][k] = IF running[o] THEN "sleep" ELSE "finally"]
    /\ UNCHANGED <<now, pmUnit, pool, nextObj, objVars, lt0, lds, ltmp, lock,
                   handlerVars, renderVars, histVars>>
    /\ UNCHANGED <<pmGen, rSeen, req, fx>>

\* lines 173-174: time.sleep(0.01); with self.lock()
LoopAcquire(o, k) ==
    /\ pc[o][k] = "sleep"
    /\ CanAcquire(lock, LoopId(o, k))
    /\ lock' = [who |-> LoopId(o, k), obj |-> o]
    /\ pc' = [pc EXCEPT ![o][k] = "time"]
    /\ UNCHANGED <<now, pmUnit, pool, nextObj, objVars, lt0, lds, ltmp,
                   handlerVars, renderVars, histVars>>
    /\ UNCHANGED <<pmGen, rSeen, req, fx>>

\* lines 176-180: t = time.time(); dt = t - t0; t0 = t; ds = speed * speed_unit * dt
LoopTime(o, k) ==
    /\ pc[o][k] = "time"
    /\ lds' = [lds EXCEPT ![o][k] = Increment(speed[o], speedUnit[o], now - lt0[o][k])]
    /\ lt0' = [lt0 EXCEPT ![o][k] = now]
    /\ pc' = [pc EXCEPT ![o][k] = "read"]
    /\ dirty' = [dirty EXCEPT ![o] = @ \ {k}]
    /\ UNCHANGED <<now, pmUnit, pool, nextObj, objVars, ltmp, lock,
                   handlerVars, renderVars, base, stopPending>>
    /\ UNCHANGED <<pmGen, rSeen, req, fx>>

\* line 182, first half of self.distance += ds: load self.distance and add ds
LoopRead(o, k) ==
    /\ pc[o][k] = "read"
    /\ ltmp' = [ltmp EXCEPT ![o][k] = distance[o] + lds[o][k]]
    /\ pc' = [pc EXCEPT ![o][k] = "write"]
    /\ dirty' = [dirty EXCEPT ![o] = @ \ {k}]
    /\ UNCHANGED <<now, pmUnit, pool, nextObj, objVars, lt0, lds, lock,
                   handlerVars, renderVars, base, stopPending>>
    /\ UNCHANGED <<pmGen, rSeen, req, fx>>

\* line 182, second half: store self.distance; the with block releases the lock
LoopWrite(o, k) ==
    /\ pc[o][k] = "write"
    /\ distance' = [distance EXCEPT ![o] = ltmp[o][k]]
    /\ lock' = Release(lock)
    /\ pc' = [pc EXCEPT ![o][k] = "test"]
    /\ lds' = [lds EXCEPT ![o][k] = 0]
    /\ ltmp' = [ltmp EXCEPT ![o][k] = 0]
    /\ dirty' = [dirty EXCEPT ![o] = @ \ {k}]
    /\ UNCHANGED <<now, pmUnit, pool, nextObj, speed, speedUnit, running, lamb, tThrow,
                   color, lt0, handlerVars, renderVars, base, stopPending>>
    /\ UNCHANGED <<pmGen, rSeen, req, fx>>

\* lines 183, 190-192: the loop left normally; finally: self.running = False
LoopFinally(o, k) ==
    /\ pc[o][k] = "finally"
    /\ running' = [running EXCEPT ![o] = RunningAfterFinally(running[o])]
    /\ pc' = [pc EXCEPT ![o][k] = "idle"]
    /\ lt0' = [lt0 EXCEPT ![o][k] = 0]
    /\ base' = [base EXCEPT ![o] = NoBase]
    /\ UNCHANGED <<now, pmUnit, pool, nextObj, speed, speedUnit, distance, lamb, tThrow,
                   color, lds, ltmp, lock, handlerVars, renderVars, dirty, stopPending>>
    /\ UNCHANGED <<pmGen, rSeen, req, fx>>

\* lines 184-192 and 150-151: an exception inside the with block releases the
\* lock, is re-raised by the except clause, and the finally clause clears running
LoopFail(o, k) ==
    /\ pc[o][k] \in InLock
    /\ lock' = Release(lock)
    /\ running' = [running EXCEPT ![o] = RunningAfterFinally(running[o])]
    /\ pc' = [pc EXCEPT ![o][k] = "idle"]
    /\ lt0' = [lt0 EXCEPT ![o][k] = 0]
    /\ lds' = [lds EXCEPT ![o][k] = 0]
    /\ ltmp' = [ltmp EXCEPT ![o][k] = 0]
    /\ base' = [base EXCEPT ![o] = NoBase]
    /\ dirty' = [dirty EXCEPT ![o] = @ \ {k}]
    /\ UNCHANGED <<now, pmUnit, pool, nextObj, speed, speedUnit, distance, lamb, tThrow,
                   color, handlerVars, renderVars, stopPending>>
    /\ UNCHANGED <<pmGen, rSeen, req, fx>>

\* ---- extend_check_points / mk_curve / PathMap.setup_road (path_map.py) ----
\* Checkpoints lie on a horizontal line; a point is its x coordinate in
\* hundredths, so that np.linalg.norm(p - q) is |p - q|.
LengthThreshold == 30        \* length_threshold = 0.3
TailLength == 10             \* tail_length = 0.1
TangentOffset == 5           \* the 0.05 of mk_curve
NaN == -1000000              \* what numpy gives for 0 * 0.05 / 0

Abs(x) == IF x < 0 THEN -x ELSE x
Sign(x) == IF x < 0 THEN -1 ELSE IF x > 0 THEN 1 ELSE 0

\* lines 64-73: the points one chord contributes
ChordPoints(p1, p2) ==
    IF Abs(p1 - p2) > LengthThreshold
    THEN <<p1, p1 + Sign(p2 - p1) * TailLength, p2 + Sign(p1 - p2) * TailLength>>
    ELSE <<p1>>

\* lines 63-74, from chord i on; the final append(p2) of line 74
RECURSIVE ExtendFrom(_, _)
ExtendFrom(cps, i) ==
    IF i >= Len(cps) THEN <<cps[Len(cps)]>>
    ELSE ChordPoints(cps[i], cps[i + 1]) \o ExtendFrom(cps, i + 1)

\* line 74 with fewer than two checkpoints: the loop body never ran, p2 is
\* unbound and the append raises UnboundLocalError
Unbound(cps) == Len(cps) < 2

extend_check_points(cps) == ExtendFrom(cps, 1)

\* lines 87-99: the control points of point i (1-based)
ControlPoint(pts, i) ==
    IF i = 1 THEN [left |-> pts[1], right |-> (pts[1] + pts[2]) \div 2]
    ELSE IF i = Len(pts)
    THEN [left |-> (pts[i] + pts[i - 1]) \div 2, right |-> pts[i]]
    ELSE IF pts[i - 1] = pts[i + 1] THEN [left |-> NaN, right |-> NaN]
    ELSE [left |-> pts[i] + Sign(pts[i - 1] - pts[i + 1]) * TangentOffset,
          right |-> pts[i] - Sign(pts[i - 1] - pts[i + 1]) * TangentOffset]

\* lines 100-108: one cubic per pair of neighbours, nodes (a, c, d, b)
mk_curve(pts) ==
    [i \in 1..(Len(pts) - 1) |->
        <<pts[i], ControlPoint(pts, i).right, ControlPoint(pts, i + 1).left, pts[i + 1]>>]

\* curve.length is 0.0 exactly when the four nodes coincide
ZeroLength(cv) == cv[1] = cv[2] /\ cv[2] = cv[3] /\ cv[3] = cv[4]
HasNaN(cv) == \E j \in 1..4 : cv[j] = NaN

\* lines 191-194: with a total length of 0.0 or nan,
\* (length / total_curve_length * total_points).map(int) raises ValueError
NoSegmentCount(curves) ==
    \/ \E i \in 1..Len(curves) : HasNaN(curves[i])
    \/ \A i \in 1..Len(curves) : ZeroLength(curves[i])

\* setup_road raises before line 218, the first assignment to self
SetupRoadFails_Never(cps) == FALSE
SetupRoadFails(cps) ==
    \/ Unbound(cps)
    \/ NoSegmentCount(mk_curve(extend_check_points(cps)))

\* ---- RequestHandler.handle (upper_screen.py) ----------------------------
\* One request is handled at a time (socketserver.TCPServer).  A request whose
\* handling takes an entity lock leaves its lock-taking calls in hOps, and the
\* handler thread performs them one by one.
\* the handler is between requests and the run's budget allows one more: up to
\* MaxCmds start/stop requests, or a single request of another kind
ToggleIdle == hOps = <<>> /\ cmds < MaxCmds
OtherIdle == hOps = <<>> /\ cmds = 0

Op(kind, o, v) == [kind |-> kind, obj |-> o, val |-> v]
LockedKinds == {"speed", "color", "lamb"}
RoadKinds == {"road_len", "road_table", "road_image"}

\* the request just received: whether the name it carries is '*' or a key of
\* the pool, its checkpoints, the pool at its arrival; the branch's last
\* statement is sendall(ok_message(...)), reached when no call is left to make
Request(kind, known, cps, ops) ==
    [kind |-> kind, known |-> known, cps |-> cps, pool |-> pool,
     status |-> IF ops = <<>> THEN "OK" ELSE "pending"]

\* sendall(ok_message(...)) after the branch's last call
Answered(r, ops) == IF ops = <<>> THEN [r EXCEPT !.status = "OK"] ELSE r

\* handle() left by an exception: the connection gets no response at all
Unanswered(kind, cps) ==
    [kind |-> kind, known |-> TRUE, cps |-> cps, pool |-> pool, status |-> "lost"]

\* lines 178-193 append_node: name search, MovingNode(pm.speed_unit), setup(),
\* then set_speed(s), pool[name] = mn, mn.go()
AppendNode(s, c) ==
    /\ nextObj <= MaxObjs
    /\ LET o == nextObj IN
        /\ speedUnit' = [speedUnit EXCEPT ![o] = pmUnit]
        /\ color' = [color EXCEPT ![o] = c]
        /\ hOps' = <<Op("speed", o, s), Op("publish", o, FirstFreeName)>>
    /\ nextObj' = nextObj + 1
    /\ req' = Request("append_node", TRUE, <<>>, hOps')
    /\ UNCHANGED <<now, pmUnit, pool, speed, running, distance, lamb, tThrow,
                   loopVars, lock, hHold, renderVars, histVars>>
    /\ UNCHANGED <<pmGen, rSeen, fx>>

CmdAppend(s, c) == OtherIdle /\ cmds' = MaxCmds /\ AppendNode(s, c)

\* line 139 go(): Thread(target=self._moving_loop).start(), unconditionally
Go(p, T) == [o \in Objs |-> IF o \in T THEN [p[o] EXCEPT ![FreeSlot(o)] = "start"] ELSE p[o]]

\* line 143 stop(): self.running = False
Stop(r, T) == [o \in Objs |-> IF o \in T THEN FALSE ELSE r[o]]

\* lines 196-208 toggle_node_running_state
CmdToggle(n, st) ==
    /\ ToggleIdle
    /\ Targets(n) # {}
    /\ IF st
       THEN /\ \A o \in Targets(n) : Alive(o) # Slots
            /\ pc' = Go(pc, Targets(n))
            /\ stopPending' = [o \in Objs |-> IF o \in Targets(n) THEN FALSE ELSE stopPending[o]]
            /\ UNCHANGED running
       ELSE /\ running' = Stop(running, Targets(n))
            /\ stopPending' = [o \in Objs |->
                                 IF o \in Targets(n) /\ running[o] THEN TRUE ELSE stopPending[o]]
            /\ UNCHANGED pc
    /\ cmds' = cmds + 1
    /\ req' = Request("toggle_node_running_state", TRUE, <<>>, <<>>)
    /\ UNCHANGED <<now, pmUnit, pool, nextObj, speed, speedUnit, distance, lamb, tThrow,
                   color, lt0, lds, ltmp, lock, hOps, hHold, renderVars, base, dirty>>
    /\ UNCHANGED <<pmGen, rSeen, fx>>

\* lines 222-225 change_node_speed
CmdSpeed(n, v) ==
    /\ OtherIdle
    /\ pool[n] # NoObj
    /\ hOps' = <<Op("speed", pool[n], v)>>
    /\ cmds' = MaxCmds
    /\ req' = Request("change_node_speed", TRUE, <<>>, hOps')
    /\ UNCHANGED <<now, pmUnit, pool, nextObj, objVars, loopVars, lock, hHold,
                   renderVars, histVars>>
    /\ UNCHANGED <<pmGen, rSeen, fx>>

\* lines 228-236 change_node_lambda
CmdLambda(n, v) ==
    /\ OtherIdle
    /\ Targets(n) # {}
    /\ LET T == SeqOfSet(Targets(n)) IN
        hOps' = [i \in 1..Len(T) |-> Op("lamb", T[i], v)]
    /\ cmds' = MaxCmds
    /\ req' = Request("change_node_lambda", TRUE, <<>>, hOps')
    /\ UNCHANGED <<now, pmUnit, pool, nextObj, objVars, loopVars, lock, hHold,
                   renderVars, histVars>>
    /\ UNCHANGED <<pmGen, rSeen, fx>>

\* line 154 reset_distance(): self.distance = 0.0, no lock taken
ResetDistance(d, o) == [d EXCEPT ![o] = 0]

\* the updater threads of o that have loaded distance and not yet stored it
Loaded(o) == {k \in Slots : pc[o][k] = "write"}

\* lines 239-242 reset_node_distance
CmdReset(n) ==
    /\ OtherIdle
    /\ pool[n] # NoObj
    /\ distance' = ResetDistance(distance, pool[n])
    /\ base' = [base EXCEPT ![pool[n]] = NoBase]
    /\ dirty' = [dirty EXCEPT ![pool[n]] = @ \cup Loaded(pool[n])]
    /\ cmds' = MaxCmds
    /\ req' = Request("reset_node_distance", TRUE, <<>>, <<>>)
    /\ UNCHANGED <<now, pmUnit, pool, nextObj, speed, speedUnit, running, lamb, tThrow,
                   color, loopVars, lock, hOps, hHold, renderVars, stopPending>>
    /\ UNCHANGED <<pmGen, rSeen, fx>>

\* lines 245-250 remove_node: moving_nodes_pool.pop(name), nothing else
RemoveNode(n) ==
    /\ pool[n] # NoObj
    /\ pool' = [pool EXCEPT ![n] = NoObj]
    /\ req' = Request("remove_node", TRUE, <<>>, <<>>)
    /\ UNCHANGED <<now, pmUnit, nextObj, objVars, loopVars, lock, hOps, hHold,
                   renderVars, histVars>>
    /\ UNCHANGED <<pmGen, rSeen, fx>>

CmdRemove(n) == OtherIdle /\ cmds' = MaxCmds /\ RemoveNode(n)

\* lines 253-268 regenerate_map: pm.setup_road(message['checkpoints']) computes
\* the new road (path_map.py 173-215) and raises, or goes on to store it field
\* by field; then pm.generate_road_map_image(...), then for every node
\* mn.speed_unit = pm.speed_unit; mn.reset_distance().  u is the speed_unit of
\* the road the checkpoints give.
CmdRegen(cps, u) ==
    /\ OtherIdle
    /\ IF SetupRoadFails(cps)
       THEN /\ hOps' = <<>>
            /\ req' = Unanswered("regenerate_map", cps)
       ELSE /\ LET T == SeqOfSet(PoolObjs) IN
                 hOps' = <<Op("road_len", NoObj, u), Op("road_table", NoObj, 0),
                           Op("road_image", NoObj, 0)>>
                         \o [i \in 1..Len(T) |-> Op("regen", T[i], 0)]
            /\ req' = Request("regenerate_map", TRUE, cps, hOps')
    /\ cmds' = MaxCmds
    /\ UNCHANGED <<now, pmUnit, pool, nextObj, objVars, loopVars, lock, hHold,
                   renderVars, histVars>>
    /\ UNCHANGED <<pmGen, rSeen, fx>>

\* lines 271-278 update_node: set_speed(...), set_color(...)
CmdUpdate(n, v, c) ==
    /\ OtherIdle
    /\ pool[n] # NoObj
    /\ hOps' = <<Op("speed", pool[n], v), Op("color", pool[n], c)>>
    /\ cmds' = MaxCmds
    /\ req' = Request("update_node", TRUE, <<>>, hOps')
    /\ UNCHANGED <<now, pmUnit, pool, nextObj, objVars, loopVars, lock, hHold,
                   renderVars, histVars>>
    /\ UNCHANGED <<pmGen, rSeen, fx>>

\* lines 206, 223, 240, 246, 273: a name that is not a key of the pool skips
\* the branch's body (remove_node: pop(name, None)), and the branch ends with
\* sendall(ok_message(...)) all the same
UnknownKinds == {"toggle_node_running_state", "change_node_speed", "reset_node_distance",
                 "remove_node", "update_node"}
CmdUnknownName(kind, n) ==
    /\ OtherIdle
    /\ pool[n] = NoObj
    /\ cmds' = MaxCmds
    /\ req' = Request(kind, FALSE, <<>>, <<>>)
    /\ UNCHANGED <<now, pmUnit, pool, nextObj, objVars, loopVars, lock, hOps, hHold,
                   renderVars, histVars>>
    /\ UNCHANGED <<pmGen, rSeen, fx>>

\* with self.lock(): of set_speed / set_color / set_lambda
HandlerAcquire ==
    /\ hOps # <<>>
    /\ Head(hOps).kind \in LockedKinds
    /\ ~hHold
    /\ CanAcquire(lock, HandlerId)
    /\ lock' = [who |-> HandlerId, obj |-> Head(hOps).obj]
    /\ hHold' = TRUE
    /\ UNCHANGED <<now, pmUnit, pool, nextObj, objVars, loopVars, hOps, cmds,
                   renderVars, histVars>>
    /\ UNCHANGED <<pmGen, rSeen, req, fx>>

\* the body of set_speed (195-198) / set_color (53-55) / set_lambda (66-68),
\* and the release of the lock
HandlerApply ==
    /\ hOps # <<>>
    /\ hHold
    /\ LET op == Head(hOps) IN
        /\ speed' = IF op.kind = "speed" THEN [speed EXCEPT ![op.obj] = ClampSpeed(op.val)] ELSE speed
        /\ color' = IF op.kind = "color" THEN [color EXCEPT ![op.obj] = op.val] ELSE color
        /\ lamb' = IF op.kind = "lamb" THEN [lamb EXCEPT ![op.obj] = op.val] ELSE lamb
        /\ base' = IF op.kind = "speed" THEN [base EXCEPT ![op.obj] = NoBase] ELSE base
    /\ lock' = Release(lock)
    /\ hHold' = FALSE
    /\ hOps' = Tail(hOps)
    /\ req' = Answered(req, hOps')
    /\ UNCHANGED <<now, pmUnit, pool, nextObj, speedUnit, running, distance, tThrow,
                   loopVars, cmds, renderVars, dirty, stopPending>>
    /\ UNCHANGED <<pmGen, rSeen, fx>>

\* lines 190-191 of append_node: moving_nodes_pool[name] = mn; mn.go()
HandlerPublish ==
    /\ hOps # <<>>
    /\ Head(hOps).kind = "publish"
    /\ pool' = [pool EXCEPT ![Head(hOps).val] = Head(hOps).obj]
    /\ pc' = Go(pc, {Head(hOps).obj})
    /\ hOps' = Tail(hOps)
    /\ req' = Answered(req, hOps')
    /\ UNCHANGED <<now, pmUnit, nextObj, objVars, lt0, lds, ltmp, lock, hHold, cmds,
                   renderVars, histVars>>
    /\ UNCHANGED <<pmGen, rSeen, fx>>

\* path_map.py 218-223 (setup_road stores speed_unit and total_curve_length,
\* then large_table .. segment_table) and 291-295 (generate_road_map_image
\* stores road_map_image), one group of assignments per step
HandlerRoad ==
    /\ hOps # <<>>
    /\ Head(hOps).kind \in RoadKinds
    /\ LET op == Head(hOps) IN
        /\ pmUnit' = IF op.kind = "road_len" THEN op.val ELSE pmUnit
        /\ pmGen' = [len |-> IF op.kind = "road_len" THEN pmGen.len + 1 ELSE pmGen.len,
                     table |-> IF op.kind = "road_table" THEN pmGen.table + 1 ELSE pmGen.table,
                     image |-> IF op.kind = "road_image" THEN pmGen.image + 1 ELSE pmGen.image]
    /\ hOps' = Tail(hOps)
    /\ req' = Answered(req, hOps')
    /\ UNCHANGED <<now, pool, nextObj, objVars, loopVars, lock, hHold, cmds,
                   renderVars, histVars>>
    /\ UNCHANGED <<rSeen, fx>>

\* line 265: mn.speed_unit = pm.speed_unit
NodeUnit_Kept(pu, old) == old
NodeUnit(pu, old) == pu

\* lines 264-266 of regenerate_map, for one node
HandlerRegenNode ==
    /\ hOps # <<>>
    /\ Head(hOps).kind = "regen"
    /\ LET o == Head(hOps).obj IN
        /\ speedUnit' = [speedUnit EXCEPT ![o] = NodeUnit(pmUnit, speedUnit[o])]
        /\ distance' = ResetDistance(distance, o)
        /\ base' = [base EXCEPT ![o] = NoBase]
        /\ dirty' = [dirty EXCEPT ![o] = @ \cup Loaded(o)]
    /\ hOps' = Tail(hOps)
    /\ req' = Answered(req, hOps')
    /\ UNCHANGED <<now, pmUnit, pool, nextObj, speed, running, lamb, tThrow, color,
                   loopVars, lock, hHold, cmds, renderVars, stopPending>>
    /\ UNCHANGED <<pmGen, rSeen, fx>>

\* ---- OnScreenPainter._main_loop / PathMap.draw_node_at_distance ---------
\* lines 398-399: prune, then list(moving_nodes_pool.values()); first node;
\* path_map.py line 309: image = self.road_map_image.copy()
RenderTick ==
    /\ rpc = "tick"
    /\ PoolObjs # {}
    /\ rObj' = Head(SeqOfSet(PoolObjs))
    /\ rpc' = "acquire"
    /\ rSeen' = [image |-> pmGen.image, len |-> Unread]
    /\ UNCHANGED <<now, pmUnit, pool, nextObj, objVars, loopVars, lock, handlerVars,
                   histVars>>
    /\ UNCHANGED <<pmGen, req, fx>>

\* path_map.py line 314: with mn.lock()
RenderAcquire ==
    /\ rpc = "acquire"
    /\ CanAcquire(lock, RenderId)
    /\ lock' = [who |-> RenderId, obj |-> rObj]
    /\ rpc' = "snap"
    /\ UNCHANGED <<now, pmUnit, pool, nextObj, objVars, loopVars, handlerVars,
                   rObj, histVars>>
    /\ UNCHANGED <<pmGen, rSeen, req, fx>>

\* path_map.py lines 316-320: distance, radius, color, bomb_throw_radius are
\* read, then mn.distance_queue raises AttributeError (MovingNode has no such
\* attribute); the with block releases the lock and the exception ends
\* _main_loop, which has no handler for it
RenderSnapshot ==
    /\ rpc = "snap"
    /\ lock' = Release(lock)
    /\ rpc' = "dead"
    /\ rSeen' = [rSeen EXCEPT !.len = pmGen.len]
    /\ UNCHANGED <<now, pmUnit, pool, nextObj, objVars, loopVars, handlerVars,
                   rObj, histVars>>
    /\ UNCHANGED <<pmGen, req, fx>>

\* ---- next-state relation -------------------------------------------------
Loop == \E o \in Objs, k \in Slots :
            \/ LoopStart(o, k)
            \/ LoopTest(o, k)
            \/ LoopAcquire(o, k)
            \/ LoopTime(o, k)
            \/ LoopRead(o, k)
            \/ LoopWrite(o, k)
            \/ LoopFinally(o, k)
            \/ LoopFail(o, k)

Command ==
    \/ \E s \in AppendSpeeds, c \in AppendColors : CmdAppend(s, c)
    \/ \E n \in CmdNames, st \in BOOLEAN : CmdToggle(n, st)
    \/ \E n \in CmdNames, v \in SpeedInputs : CmdSpeed(n, v)
    \/ \E n \in CmdNames \cup {Wildcard}, v \in LambInputs : CmdLambda(n, v)
    \/ \E n \in CmdNames : CmdReset(n)
    \/ \E n \in CmdNames : CmdRemove(n)
    \/ \E cps \in RegenInputs, u \in PathUnits : CmdRegen(cps, u)
    \/ \E n \in CmdNames, v \in SpeedInputs, c \in UpdateColors : CmdUpdate(n, v, c)
    \/ \E kind \in UnknownKinds, n \in UnknownNames : CmdUnknownName(kind, n)

Handler == HandlerAcquire \/ HandlerApply \/ HandlerPublish \/ HandlerRoad \/ HandlerRegenNode

Render == RenderTick \/ RenderAcquire \/ RenderSnapshot

Next == Tick \/ Loop \/ Command \/ Handler \/ Render

Spec == Init /\ [][Next]_vars

\* ---- PathMap.setup_road as a function of its checkpoints -----------------
CheckPointXs == {10, 30, 90}   \* a short chord (0.2) and long ones (0.6, 0.8)
CheckPointInputs == UNION {[1..n -> CheckPointXs] : n \in 0..MaxPoints}

PathInit ==
    /\ InitProgram
    /\ fx \in {[kind |-> "path", cps |-> c, built |-> FALSE, ok |-> FALSE, curves |-> <<>>] :
                 c \in CheckPointInputs}

\* path_map.py 173-223: curves are the segments mk_curve returned (none when
\* extend_check_points raised), ok tells that setup_road returned
SetupRoad ==
    /\ fx.kind = "path"
    /\ ~fx.built
    /\ fx' = [fx EXCEPT !.built = TRUE,
                        !.ok = ~SetupRoadFails(fx.cps),
                        !.curves = IF Unbound(fx.cps) THEN <<>>
                                   ELSE mk_curve(extend_check_points(fx.cps))]
    /\ UNCHANGED progVars

PathNext == SetupRoad

PathSpec == PathInit /\ [][PathNext]_vars

\* ---- Bomb (bomb.py) as a function of its arguments and the clock ---------
\* Times are in half seconds.  NoTime is the argument None.
AMax == 255                  \* color[3] of the default color
DefaultDuration == 2         \* duration = 1.0 seconds

\* `if not x`: None and 0.0 alike
Falsy(x) == x = NoTime \/ x = 0

\* int(): truncation toward zero
TruncDiv(a, b) == IF a >= 0 THEN a \div b ELSE -((-a) \div b)

\* lines 63 and 86: progress = 1-(t - t0)/duration; a = int(color[3] * progress)
Opacity_FadeIn(t0, d, t) == TruncDiv(AMax * (t - t0), d)
Opacity(t0, d, t) == TruncDiv(AMax * (d - (t - t0)), d)

EffectTimes == {NoTime} \cup 0..MaxEffectTime
EffectInit ==
    /\ InitProgram
    /\ fx \in {[kind |-> "bomb", t0arg |-> a, durarg |-> d, clock |-> c, targ |-> t,
                clock2 |-> c + w, made |-> FALSE, t0 |-> 0, duration |-> 0, t1 |-> 0,
                drawn |-> FALSE, opacity |-> 0, checked |-> FALSE, expired |-> FALSE] :
                 a \in {NoTime, 0, 2}, d \in {NoTime, 0, 4}, c \in {1, 2},
                 t \in EffectTimes, w \in {0, 3}}

\* lines 39-50 __init__; time.time() reads fx.clock
EffectCreate ==
    /\ fx.kind = "bomb"
    /\ ~fx.made
    /\ LET t0 == IF Falsy(fx.t0arg) THEN fx.clock ELSE fx.t0arg
           d == IF Falsy(fx.durarg) THEN DefaultDuration ELSE fx.durarg
       IN fx' = [fx EXCEPT !.made = TRUE, !.t0 = t0, !.duration = d, !.t1 = t0 + d]
    /\ UNCHANGED progVars

\* lines 60-61, 76-77: `if not t: t = time.time()`; time.time() reads fx.clock2
TimeUsed == IF Falsy(fx.targ) THEN fx.clock2 ELSE fx.targ

\* lines 80-87 draw(image, t) with fetch_now(t)
EffectDraw ==
    /\ fx.kind = "bomb"
    /\ fx.made /\ ~fx.drawn
    /\ fx' = [fx EXCEPT !.drawn = TRUE, !.opacity = Opacity(fx.t0, fx.duration, TimeUsed)]
    /\ UNCHANGED progVars

\* lines 68-78 check_if_expired(t)
EffectCheck ==
    /\ fx.kind = "bomb"
    /\ fx.made /\ ~fx.checked
    /\ fx' = [fx EXCEPT !.checked = TRUE, !.expired = (TimeUsed > fx.t1)]
    /\ UNCHANGED progVars

EffectNext == EffectCreate \/ EffectDraw \/ EffectCheck

EffectSpec == EffectInit /\ [][EffectNext]_vars

\* ---- BombThrower.throw_bomb (moving_node.py) as a function ----------------
\* line 83: dt = -1/self.lamb * np.log(u) with u in [1e-5, 1): of the sign of
\* lamb; m is its size in clock units, 0 when t + dt rounds to t
ThrowDelay(l, m) == IF l > 0 THEN m ELSE -m
EmitLambs == {-3, 0, 3}
EmitSizes == {0, 1, 2}

EmitInit ==
    /\ InitProgram
    /\ fx \in {[kind |-> "throw", tThrow |-> d, targ |-> t, clock |-> c, lamb |-> l,
                size |-> m, done |-> FALSE, used |-> 0, result |-> "none", tNext |-> d] :
                 d \in {NoTime} \cup 1..MaxEmitTime, t \in {NoTime} \cup 1..MaxEmitTime,
                 c \in 1..MaxEmitTime, l \in EmitLambs, m \in EmitSizes}

\* lines 96-113: result "bomb" is the returned Bomb, "none" the bare return,
\* "raise" the ZeroDivisionError of line 83, which leaves t_throw as it was
ThrowBomb ==
    /\ fx.kind = "throw"
    /\ ~fx.done
    /\ LET t == IF Falsy(fx.targ) THEN fx.clock ELSE fx.targ IN
        fx' = [fx EXCEPT
                 !.done = TRUE,
                 !.used = t,
                 !.result = IF fx.tThrow = NoTime \/ t < fx.tThrow THEN "none"
                            ELSE IF fx.lamb = 0 THEN "raise" ELSE "bomb",
                 !.tNext = IF fx.tThrow = NoTime \/ t < fx.tThrow \/ fx.lamb = 0
                           THEN fx.tThrow
                           ELSE t + ThrowDelay(fx.lamb, fx.size)]
    /\ UNCHANGED progVars

EmitNext == ThrowBomb

EmitSpec == EmitInit /\ [][EmitNext]_vars

\* ---- PathMap.setup_road, the rows of large_table (path_map.py 191-215) -----
RECURSIVE SumSeq(_)
SumSeq(q) == IF q = <<>> THEN 0 ELSE Head(q) + SumSeq(Tail(q))

\* lines 193-194: (length / total_curve_length * total_points).map(int)
SegmentRows_Ceil(len, total, points) == (len * points + total - 1) \div total
SegmentRows(len, total, points) == TruncDiv(len * points, total)

SegLengths == {1, 2, 3, 5}     \* curve.length, all positive
TotalPoints == {1, 7, 10}      \* self.total_points
RowsInit ==
    /\ InitProgram
    /\ fx \in {[kind |-> "rows", lengths |-> q, points |-> n, built |-> FALSE,
                n |-> <<>>, rows |-> 0] :
                 q \in UNION {[1..j -> SegLengths] : j \in 1..MaxSegs}, n \in TotalPoints}

\* lines 191-211: total_curve_length, segment_table['n'], one frame of n rows
\* per segment (np.linspace(0, 1, n, endpoint=False)), pd.concat of them
BuildRows ==
    /\ fx.kind = "rows"
    /\ ~fx.built
    /\ LET total == SumSeq(fx.lengths)
           n == [i \in 1..Len(fx.lengths) |-> SegmentRows(fx.lengths[i], total, fx.points)]
       IN fx' = [fx EXCEPT !.built = TRUE, !.n = n, !.rows = SumSeq(n)]
    /\ UNCHANGED progVars

RowsNext == BuildRows

RowsSpec == RowsInit /\ [][RowsNext]_vars

\* ---- PathMap.draw_node_at_distance, the row of a distance (path_map.py) ----
\* A table is the 'distance' column of large_table, in row order; row i of
\* the model is row i - 1 of the frame.
TableLength == MaxRows + 1     \* total_curve_length of the tables below
Sorted(q) == \A i \in 1..(Len(q) - 1) : q[i] <= q[i + 1]
Tables == {q \in UNION {[1..j -> 0..TableLength] : j \in 1..MaxRows} : Sorted(q) /\ q[1] = 0}

\* lines 329-333: large_table[large_table['distance'].lt(distance)].iloc[-1],
\* and large_table.iloc[0] when that raises (no row is selected)
RowAt_Le(table, d) ==
    LET S == {i \in 1..Len(table) : table[i] <= d}
    IN IF S = {} THEN 1 ELSE CHOOSE i \in S : \A j \in S : j <= i
RowAt(table, d) ==
    LET S == {i \in 1..Len(table) : table[i] < d}
    IN IF S = {} THEN 1 ELSE CHOOSE i \in S : \A j \in S : j <= i

\* line 316: distance = mn.distance % self.total_curve_length
Wrapped(d, total) == d % total

LookupInit ==
    /\ InitProgram
    /\ fx \in {[kind |-> "lookup", table |-> q, d |-> d, k |-> k, done |-> FALSE,
                row |-> 0, rowK |-> 0] :
                 q \in Tables, d \in 0..(2 * TableLength), k \in {-1, 1, 2}}

\* lines 316 and 329-333 for mn.distance = d and for mn.distance = d + k * total
Lookup ==
    /\ fx.kind = "lookup"
    /\ ~fx.done
    /\ fx' = [fx EXCEPT !.done = TRUE,
                        !.row = RowAt(fx.table, Wrapped(fx.d, TableLength)),
                        !.rowK = RowAt(fx.table, Wrapped(fx.d + fx.k * TableLength, TableLength))]
    /\ UNCHANGED progVars

LookupNext == Lookup

LookupSpec == LookupInit /\ [][LookupNext]_vars

\* ---- PathMap.draw_node_at_distance, the trail (path_map.py 340-371) --------
\* lines 343-344: query(f'distance<{d}').iloc[-1].name, the 0-based label of
\* the last row below d; NoRow when iloc[-1] raises IndexError
NoRow == -1
LabelBelow(table, d) ==
    LET S == {i \in 1..Len(table) : table[i] < d}
    IN IF S = {} THEN NoRow ELSE (CHOOSE i \in S : \A j \in S : j <= i) - 1

\* lines 347-348: if a == b: a -= 1
TrailStart(a, b) == IF a = b THEN a - 1 ELSE a

\* lines 349-361: the lines drawn by `for i in range(a-1, b-1)`; .loc[i] with
\* i < 0 raises KeyError in the first pass, before anything is drawn, and the
\* except clause of line 370 swallows it, as it does the IndexError above
TrailSegments(table, d1, d2) ==
    LET a0 == LabelBelow(table, d1)
        b == LabelBelow(table, d2)
        a == TrailStart(a0, b)
    IN IF a0 = NoRow \/ b = NoRow THEN 0
       ELSE IF a - 1 < 0 THEN 0
       ELSE IF b - 1 > a - 1 THEN (b - 1) - (a - 1) ELSE 0

TrailInit ==
    /\ InitProgram
    /\ fx \in {[kind |-> "trail", table |-> q, d1 |-> d1, d2 |-> d2, done |-> FALSE,
                segments |-> 0] :
                 q \in Tables, d1 \in 0..(TableLength - 1), d2 \in 0..(TableLength - 1)}

DrawTrail ==
    /\ fx.kind = "trail"
    /\ ~fx.done
    /\ fx' = [fx EXCEPT !.done = TRUE,
                        !.segments = TrailSegments(fx.table, fx.d1, fx.d2)]
    /\ UNCHANGED progVars

TrailNext == DrawTrail

TrailSpec == TrailInit /\ [][TrailNext]_vars

\* ---- one entity through the passes of _main_loop (upper_screen.py) -------
\* The loop body for a pool of one started entity whose rate is positive.
\* Times are in half seconds, as in the Bomb specification.
\* lines 398, 400-405, 406, 409-411, 416-417: the order of the statements
TickOrder_PruneLate == <<"snap", "emit", "prune", "bombs", "frame">>
TickOrder == <<"prune", "snap", "emit", "bombs", "frame">>

TickColors == {"red", "blue"}
NoColor == "none"
TickLamb == 3                \* bomb_throw_lambda: a positive rate

\* Bomb(color=self.color, ...) created at clock reading t: bomb.py 39-50
NewBomb(c, t) == [t0 |-> t, t1 |-> t + DefaultDuration, color |-> c]

\* upper_screen.py 103-114: [e for e in self.pool if not e.check_if_expired()]
Unexpired(q, t) == SelectSeq(q, LAMBDA b : ~(t > b.t1))

\* what is left in the queue after `[mn.distance_queue.get() ... for i in
\* range(_n-1)]` (path_map.py 320-322)
Drained(n) == IF n >= 1 THEN 1 ELSE 0

\* moving_node.py 96-104: `if self.t_throw is None: return`, then
\* `if t < self.t_throw: return`; r is self.running, which is not looked at
Due_Running(tt, t, r) == r /\ tt # NoTime /\ t >= tt
Due(tt, t, r) == tt # NoTime /\ t >= tt

\* what the last throw_bomb() of the loop found and did
NoEmit == [done |-> FALSE, tThrow |-> NoTime, t |-> 0, running |-> FALSE, emitted |-> FALSE]

TickInit ==
    /\ InitProgram
    /\ fx \in {[kind |-> "tick", clock |-> 1, tpc |-> 1, tick |-> 0, color |-> c,
                snapColor |-> NoColor, tThrow |-> d, pool |-> <<>>, qsize |-> 0,
                prunes |-> 0, removed |-> 0, entDrawn |-> FALSE, emitColor |-> NoColor,
                drawn |-> <<>>, fxDrawn |-> FALSE, running |-> d # NoTime,
                lastEmit |-> NoEmit] :
                 c \in TickColors, d \in {NoTime, 1, 2}}

Ticking(step) == fx.kind = "tick" /\ fx.tick < MaxTicks /\ TickOrder[fx.tpc] = step

\* time.time() moves on between any two statements
TickClock ==
    /\ fx.kind = "tick"
    /\ fx.clock < MaxTickTime
    /\ fx' = [fx EXCEPT !.clock = fx.clock + 1]
    /\ UNCHANGED progVars

\* moving_node.py 53-55 set_color, from the handler thread
TickSetColor(c) ==
    /\ fx.kind = "tick"
    /\ c # fx.color
    /\ fx' = [fx EXCEPT !.color = c]
    /\ UNCHANGED progVars

\* moving_node.py 141-143 stop(): self.running = False, and nothing else
TickStop ==
    /\ fx.kind = "tick"
    /\ fx.running
    /\ fx' = [fx EXCEPT !.running = FALSE]
    /\ UNCHANGED progVars

\* the updater puts its current distance into the entity's distance queue
TickEnqueue ==
    /\ fx.kind = "tick"
    /\ fx.qsize < MaxQueue
    /\ fx' = [fx EXCEPT !.qsize = fx.qsize + 1]
    /\ UNCHANGED progVars

\* line 398: rbp.remove_expired_bombs()
TickPrune ==
    /\ Ticking("prune")
    /\ fx' = [fx EXCEPT !.pool = Unexpired(fx.pool, fx.clock),
                        !.prunes = fx.prunes + 1,
                        !.removed = Len(fx.pool) - Len(Unexpired(fx.pool, fx.clock)),
                        !.tpc = fx.tpc + 1]
    /\ UNCHANGED progVars

\* lines 400-405 with path_map.py 314-322 and 337-338: the snapshot under the
\* entity's lock, the queue drained, the body drawn in the snapshot's color
TickSnapshot ==
    /\ Ticking("snap")
    /\ fx' = [fx EXCEPT !.snapColor = fx.color,
                        !.qsize = Drained(fx.qsize),
                        !.entDrawn = TRUE,
                        !.tpc = fx.tpc + 1]
    /\ UNCHANGED progVars

\* line 406: rbp.append(mn.throw_bomb()); moving_node.py 96-113: the Bomb
\* takes self.color as it is now
TickEmit ==
    /\ Ticking("emit")
    /\ IF ~Due(fx.tThrow, fx.clock, fx.running)
       THEN fx' = [fx EXCEPT !.tpc = fx.tpc + 1,
                             !.lastEmit = [done |-> TRUE, tThrow |-> fx.tThrow, t |-> fx.clock,
                                           running |-> fx.running, emitted |-> FALSE]]
       ELSE \E m \in EmitSizes :
              fx' = [fx EXCEPT !.tThrow = fx.clock + ThrowDelay(TickLamb, m),
                               !.lastEmit = [done |-> TRUE, tThrow |-> fx.tThrow,
                                             t |-> fx.clock, running |-> fx.running,
                                             emitted |-> TRUE],
                               !.pool = Append(fx.pool, NewBomb(fx.color, fx.clock)),
                               !.emitColor = fx.color,
                               !.tpc = fx.tpc + 1]
    /\ UNCHANGED progVars

\* lines 409-411: for bomb in rbp.pool: img = bomb.draw(img); bomb.py 60-63:
\* fetch_now reads time.time()
TickDrawBombs ==
    /\ Ticking("bombs")
    /\ fx' = [fx EXCEPT !.drawn = [i \in 1..Len(fx.pool) |->
                                     [t |-> fx.clock, t0 |-> fx.pool[i].t0,
                                      t1 |-> fx.pool[i].t1]],
                        !.fxDrawn = fx.pool # <<>>,
                        !.tpc = fx.tpc + 1]
    /\ UNCHANGED progVars

\* lines 416-418: the frame is handed over and the next pass begins
TickFrame ==
    /\ Ticking("frame")
    /\ fx' = [fx EXCEPT !.tick = fx.tick + 1, !.tpc = 1, !.prunes = 0, !.removed = 0,
                        !.entDrawn = FALSE, !.emitColor = NoColor, !.snapColor = NoColor,
                        !.drawn = <<>>, !.fxDrawn = FALSE]
    /\ UNCHANGED progVars

TickNext ==
    \/ TickClock
    \/ \E c \in TickColors : TickSetColor(c)
    \/ TickStop
    \/ TickEnqueue
    \/ TickPrune
    \/ TickSnapshot
    \/ TickEmit
    \/ TickDrawBombs
    \/ TickFrame

TickSpec == TickInit /\ [][TickNext]_vars

\* ---- one MovingNode under go() / stop() / reset_distance() ----------------
\* The entity's updater threads alone, in the units of the program model.  A
\* slot of th is one thread: its position, its local t0, and what is remembered
\* of it: goAt the clock of its go(), gap the time no updater had been alive
\* before that go() (NoGap when one was, or none had ever run), first whether
\* it has yet to add an increment, seen whether it was inside its loop at the
\* last stop(), after the increments it has added since that stop().
NoGap == -1
NoFirst == [gap |-> NoGap, dt |-> 0, ds |-> 0, sinceGo |-> 0]
NodeSlot == [pc |-> "idle", t0 |-> 0, goAt |-> 0, gap |-> NoGap, first |-> FALSE,
             seen |-> FALSE, after |-> 0]
NodeAlive(th) == {k \in Slots : th[k].pc # "idle"}
InLoop == {"test", "body"}

\* line 167: t0 = time.time()
LoopT0_Kept(t, old) == old
LoopT0(t, old) == t

NodeInit ==
    /\ InitProgram
    /\ fx = [kind |-> "node", clock |-> 0, running |-> FALSE, distance |-> 0,
             th |-> [k \in Slots |-> NodeSlot], goes |-> 0, idleAt |-> NoTime,
             lastFirst |-> NoFirst]

NodeClock ==
    /\ fx.kind = "node"
    /\ fx.clock < MaxNodeTime
    /\ fx' = [fx EXCEPT !.clock = fx.clock + 1]
    /\ UNCHANGED progVars

\* lines 137-139 go(): a thread is started, whatever the entity's state
NodeGo ==
    /\ fx.kind = "node"
    /\ fx.goes < MaxGo
    /\ NodeAlive(fx.th) # Slots
    /\ LET k == CHOOSE j \in Slots : fx.th[j].pc = "idle"
                                      /\ \A i \in Slots : i < j => fx.th[i].pc # "idle"
       IN fx' = [fx EXCEPT !.goes = fx.goes + 1,
                           !.idleAt = NoTime,
                           !.th[k] = [pc |-> "start", t0 |-> fx.th[k].t0, goAt |-> fx.clock,
                                      gap |-> IF fx.idleAt = NoTime THEN NoGap
                                              ELSE fx.clock - fx.idleAt,
                                      first |-> TRUE, seen |-> FALSE, after |-> 0]]
    /\ UNCHANGED progVars

\* lines 141-143 stop(): self.running = False
NodeStop ==
    /\ fx.kind = "node"
    /\ fx' = [fx EXCEPT !.running = FALSE,
                        !.th = [k \in Slots |->
                                  [fx.th[k] EXCEPT !.seen = fx.th[k].pc \in InLoop,
                                                   !.after = 0]]]
    /\ UNCHANGED progVars

\* lines 153-154 reset_distance()
NodeReset ==
    /\ fx.kind = "node"
    /\ fx.distance # 0
    /\ fx' = [fx EXCEPT !.distance = 0]
    /\ UNCHANGED progVars

\* lines 161-168: self.running = True; compute_next_t_throw(); t0 = time.time()
NodeLoopStart(k) ==
    /\ fx.kind = "node"
    /\ fx.th[k].pc = "start"
    /\ fx' = [fx EXCEPT !.running = TRUE,
                        !.th[k].pc = "test",
                        !.th[k].t0 = LoopT0(fx.clock, fx.th[k].t0)]
    /\ UNCHANGED progVars

\* line 172: while self.running
NodeLoopTest(k) ==
    /\ fx.kind = "node"
    /\ fx.th[k].pc = "test"
    /\ fx' = [fx EXCEPT !.th[k].pc = IF fx.running THEN "body" ELSE "finally"]
    /\ UNCHANGED progVars

\* lines 173-182: the iteration, under the lock
NodeLoopBody(k) ==
    /\ fx.kind = "node"
    /\ fx.th[k].pc = "body"
    /\ LET dt == fx.clock - fx.th[k].t0
           ds == Increment(DefaultSpeed, InitUnit, dt)
       IN fx' = [fx EXCEPT
                   !.distance = fx.distance + ds,
                   !.th[k].t0 = fx.clock,
                   !.th[k].pc = "test",
                   !.th[k].first = FALSE,
                   !.th[k].after = IF fx.th[k].seen THEN Min(fx.th[k].after + 1, MaxAfter)
                                   ELSE 0,
                   !.lastFirst = IF fx.th[k].first /\ fx.th[k].gap # NoGap
                                 THEN [gap |-> fx.th[k].gap, dt |-> dt, ds |-> ds,
                                       sinceGo |-> fx.clock - fx.th[k].goAt]
                                 ELSE fx.lastFirst]
    /\ UNCHANGED progVars

\* lines 183, 190-192: the loop is left; finally: self.running = False
NodeLoopFinally(k) ==
    /\ fx.kind = "node"
    /\ fx.th[k].pc = "finally"
    /\ fx' = [fx EXCEPT !.running = RunningAfterFinally(fx.running),
                        !.th[k].pc = "idle",
                        !.th[k].seen = FALSE,
                        !.th[k].after = 0,
                        !.idleAt = IF NodeAlive(fx.th) = {k} THEN fx.clock ELSE fx.idleAt]
    /\ UNCHANGED progVars

NodeNext ==
    \/ NodeClock
    \/ NodeGo
    \/ NodeStop
    \/ NodeReset
    \/ \E k \in Slots : NodeLoopStart(k)
    \/ \E k \in Slots : NodeLoopTest(k)
    \/ \E k \in Slots : NodeLoopBody(k)
    \/ \E k \in Slots : NodeLoopFinally(k)

NodeSpec == NodeInit /\ [][NodeNext]_vars

\* ---- the registry under a sequence of append_node / remove_node requests --
\* The pool is written by the handler thread alone; the render thread reads it.
RegIdle == hOps = <<>> /\ cmds < MaxReg
RegAppend(s, c) == RegIdle /\ cmds' = cmds + 1 /\ AppendNode(s, c)
RegRemove(n) == RegIdle /\ cmds' = cmds + 1 /\ RemoveNode(n)

RegistryNext ==
    \/ \E s \in AppendSpeeds, c \in AppendColors : RegAppend(s, c)
    \/ \E n \in Names : RegRemove(n)
    \/ HandlerAcquire
    \/ HandlerApply
    \/ HandlerPublish
    \/ Render

RegistrySpec == Init /\ [][RegistryNext]_vars

\* ---- the entity loop of _main_loop beside append_node / remove_node -------
\* The handler thread changes the pool while the render thread is inside
\* `for mn in list(moving_nodes_pool.values())`.  fx holds the render thread:
\* todo the nodes of the list not yet visited, drawn the nodes drawn in the
\* pass, atStart and absent the nodes in and not in the pool when the list was
\* taken, poolAtEnd the nodes of the pool when the pass ended.
\* line 399: the list is built once, before the first node is visited
Remaining_Live(todo, drawn) == SeqOfSet(PoolObjs \ drawn)
Remaining(todo, drawn) == todo

IterInit ==
    /\ InitProgram
    /\ fx = [kind |-> "iter", tpc |-> "idle", ticks |-> 0, todo |-> <<>>, drawn |-> {},
             atStart |-> {}, absent |-> {}, poolAtEnd |-> {}]

\* lines 398-399: remove_expired_bombs(); list(moving_nodes_pool.values())
IterStart ==
    /\ fx.kind = "iter"
    /\ fx.tpc = "idle"
    /\ fx.ticks < MaxIterTicks
    /\ fx' = [fx EXCEPT !.tpc = "loop", !.todo = SeqOfSet(PoolObjs), !.drawn = {},
                        !.atStart = PoolObjs,
                        !.absent = (1..(nextObj - 1)) \ PoolObjs]
    /\ UNCHANGED progVars

\* lines 400-406: draw_node_at_distance(mn), which takes the node's lock for
\* its snapshot, then rbp.append(mn.throw_bomb())
IterDraw ==
    /\ fx.kind = "iter"
    /\ fx.tpc = "loop"
    /\ Remaining(fx.todo, fx.drawn) # <<>>
    /\ CanAcquire(lock, RenderId)
    /\ fx' = [fx EXCEPT !.drawn = fx.drawn \cup {Head(Remaining(fx.todo, fx.drawn))},
                        !.todo = Tail(Remaining(fx.todo, fx.drawn))]
    /\ UNCHANGED progVars

\* lines 409-418: the bombs, the frame, the sleep
IterEnd ==
    /\ fx.kind = "iter"
    /\ fx.tpc = "loop"
    /\ Remaining(fx.todo, fx.drawn) = <<>>
    /\ fx' = [fx EXCEPT !.tpc = "idle", !.ticks = fx.ticks + 1, !.poolAtEnd = PoolObjs]
    /\ UNCHANGED progVars

IterNext ==
    \/ \E s \in AppendSpeeds, c \in AppendColors : RegAppend(s, c)
    \/ \E n \in Names : RegRemove(n)
    \/ HandlerAcquire
    \/ HandlerApply
    \/ HandlerPublish
    \/ IterStart
    \/ IterDraw
    \/ IterEnd

IterSpec == IterInit /\ [][IterNext]_vars

\* ---- properties ----------------------------------------------------------
\* an object that was registered and is no longer in the pool
Removed(o) == o < nextObj /\ o \notin PoolObjs /\ \A i \in 1..Len(hOps) : hOps[i].obj # o

\* C1: go() on an entity whose running flag is set starts no updater thread
\* (no thread slot of that entity leaves "idle" while running is true).
C1_GoWhileRunningIsNoOp ==
    [][\A o \in Objs : running[o] =>
          \A k \in Slots : pc[o][k] = "idle" => pc'[o][k] = "idle"]_vars

\* C2: every entity has at most one updater thread alive, and exactly one
\* whenever its running flag is set.
C2_OneUpdaterPerEntity ==
    \A o \in Objs : /\ Cardinality(Alive(o)) <= 1
                    /\ running[o] => Cardinality(Alive(o)) = 1

\* C3: an updater never stores into distance a sum that carries distance
\* travelled before a reset_distance() that has since returned (its distance
\* operand was loaded before the reset and was not 0).
C3_ResetSerializedWithUpdater ==
    [][\A o \in Objs : \A k \in Slots :
          pc[o][k] = "write" /\ pc'[o][k] = "test" /\ k \in dirty[o]
              => ltmp[o][k] = lds[o][k]]_vars

\* C4: a thread about to take entity B's lock is never kept out by a thread
\* that holds the lock for a different entity A.
C4_LockPerEntity ==
    /\ \A o \in Objs : \A k \in Slots :
          pc[o][k] = "sleep" /\ lock.obj # o => CanAcquire(lock, LoopId(o, k))
    /\ rpc = "acquire" /\ lock.obj # rObj => CanAcquire(lock, RenderId)
    /\ (hOps # <<>> /\ ~hHold /\ Head(hOps).kind \in LockedKinds /\ lock.obj # Head(hOps).obj)
          => CanAcquire(lock, HandlerId)

\* C5: while the render thread is inside its snapshot critical section for an
\* entity, no updater of that entity is inside its distance update and the
\* handler is not inside set_speed / set_color / set_lambda on that entity.
C5_SnapshotExclusive ==
    rpc = "snap" =>
        /\ \A k \in Slots : pc[rObj][k] \notin InLock
        /\ ~(hHold /\ Head(hOps).obj = rObj)

\* the render thread is inside the snapshot of an entity that has already moved,
\* while an updater of it and a set_speed on it both wait for the lock
C5_Witness ==
    /\ rpc = "snap"
    /\ distance[rObj] > 0
    /\ \E k \in Slots : pc[rObj][k] = "sleep"
    /\ hOps # <<>> /\ Head(hOps).kind = "speed" /\ Head(hOps).obj = rObj /\ ~hHold

\* C6: after stop() on a running entity, and as long as no go() follows, the
\* running flag stays cleared.
C6_StopClearsRunning ==
    \A o \in Objs : stopPending[o] => ~running[o]

\* C7: an updater of an entity removed from the registry begins no further
\* iteration: when it next tests the running flag it leaves the loop.
C7_RemoveStopsUpdater ==
    [][\A o \in Objs : \A k \in Slots :
          Removed(o) /\ pc[o][k] = "test" => pc'[o][k] # "sleep"]_vars

\* C8: every entity's stored speed lies within speed_limit.
C8_SpeedWithinLimits ==
    \A o \in Objs : SpeedMin <= speed[o] /\ speed[o] <= SpeedMax

\* a negative speed argument has been handled: the lower limit is stored
C8_Witness ==
    \E n \in Names : pool[n] # NoObj /\ speed[pool[n]] = SpeedMin /\ cmds = MaxCmds /\ hOps = <<>>

\* C9: while a single updater has been alive for an entity since it started,
\* with speed and speed_unit unchanged and no reset, the distance after each of
\* its iterations is the distance at loop start plus
\* speed x speed_unit x (time of the iteration - loop start time).
C9_DistanceIsSpeedTimesElapsed ==
    \A o \in Objs : \A k \in Slots :
        base[o] # NoBase /\ pc[o][k] \in {"test", "sleep", "finally"} =>
            distance[o] = base[o].d + speed[o] * speedUnit[o] * (lt0[o][k] - base[o].t)

\* an updater has completed iterations spanning at least two clock ticks
C9_Witness ==
    \E o \in Objs : \E k \in Slots :
        /\ base[o] # NoBase
        /\ pc[o][k] = "test"
        /\ lt0[o][k] - base[o].t >= 2
        /\ distance[o] > 0

\* C10: when an updater iteration raises, that thread ends with the entity's
\* running flag cleared and the lock released, nothing of any other entity
\* changes, and every other entity's updater waiting for the lock can take it.
C10_UpdaterFailureIsLocal ==
    [][\A o \in Objs : \A k \in Slots :
          pc[o][k] \in InLock /\ pc'[o][k] = "idle" =>
              /\ ~running'[o]
              /\ lock' = Free
              /\ \A o2 \in Objs \ {o} :
                    /\ pc'[o2] = pc[o2]
                    /\ running'[o2] = running[o2]
                    /\ distance'[o2] = distance[o2]
                    /\ \A k2 \in Slots : pc'[o2][k2] = "sleep" =>
                          CanAcquire(lock', LoopId(o2, k2))]_vars

\* entity 1's updater has ended without any stop request (it raised), and
\* entity 2's updater is inside an iteration that adds to its distance
C10_Witness ==
    /\ cmds = 0
    /\ Alive(1) = {}
    /\ ~running[1]
    /\ pc[2][1] = "write"
    /\ ltmp[2][1] > distance[2]
\* C11: within one render tick the path data read for a frame come from one
\* generation of the path: the total_curve_length read under the entity lock
\* was stored by the same setup_road call as the road_map_image copied before.
C11_SingleGeneration == rSeen.len # Unread => rSeen.len = rSeen.image

\* C12: a regenerate_map request whose checkpoints cannot be built (fewer than
\* two of them) changes neither the path nor any entity: the step that
\* receives it leaves path, registry, speed units, distances and running flags
\* alone, and it leaves no call behind that would change them later.
C12_FailedRebuildChangesNothing ==
    /\ [](req.kind = "regenerate_map" /\ Len(req.cps) < 2
            => /\ hOps = <<>>
               /\ pmGen = Gen0 /\ pmUnit = InitUnit
               /\ \A o \in PoolObjs : speedUnit[o] = InitUnit)
    /\ [][req' # req /\ req'.kind = "regenerate_map" /\ Len(req'.cps) < 2
            => UNCHANGED <<pmUnit, pmGen, pool, speedUnit, distance, running>>]_vars

\* a rebuild has failed and an entity is still advancing on the old path
C12_Witness ==
    /\ req.kind = "regenerate_map" /\ Len(req.cps) < 2 /\ req.status = "lost"
    /\ \E o \in PoolObjs : \E k \in Slots : pc[o][k] = "write" /\ distance[o] > 0

\* C13: once a regenerate_map request is answered, the registry holds the
\* entities it held when the request arrived, and every registered entity's
\* speed_unit is the new path's.
C13_RegenKeepsRegistry ==
    req.kind = "regenerate_map" /\ req.status = "OK"
        => /\ pool = req.pool
           /\ \A o \in PoolObjs : speedUnit[o] = pmUnit

\* a rebuild has completed with a speed_unit other than the start-up one
C13_Witness ==
    /\ req.kind = "regenerate_map" /\ req.status = "OK"
    /\ pmUnit # InitUnit /\ pmGen.len = 1 /\ PoolObjs # {}

\* C14: a step that puts an entity into the registry puts it under the lowest
\* name that was free, into an entry that was empty, leaves every other entry
\* as it was, and the registry is one entity larger afterwards; the entity is
\* one that was not registered before.
C14_AppendUsesLowestFreeName ==
    [][(\E n \in Names : pool'[n] # pool[n] /\ pool'[n] # NoObj)
        => \E n \in Names :
              /\ pool[n] = NoObj
              /\ \A m \in Names : m < n => pool[m] # NoObj
              /\ pool'[n] # NoObj /\ pool'[n] \notin PoolObjs
              /\ \A m \in Names : m # n => pool'[m] = pool[m]
              /\ Cardinality({m \in Names : pool'[m] # NoObj})
                   = Cardinality({m \in Names : pool[m] # NoObj}) + 1]_vars

\* after a remove_node of 'mn1' an appended entity has been given that name,
\* below the name 'mn2' still in use
C14_Witness == pool[1] \notin {NoObj, 1, 2} /\ pool[2] # NoObj /\ req.kind = "append_node"

\* C15: every request that has been handled was answered with a success or a
\* failure response.
C15_EveryRequestAnswered ==
    hOps = <<>> /\ req.kind # "none" => req.status \in {"OK", "Failed"}

\* C16: a request that names an entity which is not in the registry is not
\* answered with success.
C16_UnknownNameRejected == req.status = "OK" => req.known

\* C17: the emission rate stored in an entity is greater than zero.
C17_LambdaPositive == \A o \in Objs : lamb[o] > 0

\* C18: setup_road does not return when it is given fewer than two
\* checkpoints or checkpoints of which two consecutive ones coincide.
C18_DegenerateInputFails ==
    (/\ fx.kind = "path" /\ fx.built
     /\ \/ Len(fx.cps) < 2
        \/ \E i \in 1..(Len(fx.cps) - 1) : fx.cps[i] = fx.cps[i + 1])
        => ~fx.ok

C20_ExpiredAfterDuration ==
    (/\ fx.kind = "bomb" /\ fx.checked
     /\ fx.t0arg # NoTime /\ fx.durarg # NoTime /\ fx.targ # NoTime)
        => fx.expired = (fx.targ > fx.t0arg + fx.durarg)

\* C21: whenever a render pass draws an effect, the time it uses for the
\* drawing is at most the effect's t0 + duration.
C21_NoExpiredEffectDrawn ==
    fx.kind = "tick" => \A i \in 1..Len(fx.drawn) : fx.drawn[i].t <= fx.drawn[i].t1

\* C22: throw_bomb at time now returns an effect exactly when t_throw is set
\* and now >= t_throw; with t_throw unset it returns none; and when it returns
\* an effect, t_throw has been set anew, from now.
C22_EmitIffDue ==
    fx.kind = "throw" /\ fx.done
        => /\ fx.result = "bomb" <=> (fx.tThrow # NoTime /\ fx.used >= fx.tThrow)
           /\ fx.tThrow = NoTime => fx.result = "none"
           /\ fx.result = "bomb" => fx.tNext = fx.used + ThrowDelay(fx.lamb, fx.size)

\* C23: the row found for a distance d has the greatest cumulative distance
\* strictly less than d modulo the total length, or is the first row when no
\* row's distance is strictly less; and d + k * total length finds the same row.
C23_PositionLookup ==
    fx.kind = "lookup" /\ fx.done
        => LET w == fx.d % TableLength
               less == {i \in 1..Len(fx.table) : fx.table[i] < w}
           IN /\ less = {} => fx.row = 1
              /\ less # {} => /\ fx.row \in less
                              /\ \A i \in less : fx.table[i] <= fx.table[fx.row]
              /\ fx.rowK = fx.row

\* a distance beyond the end of the path was wrapped and found a later row
\* than the first, below a row whose distance equals the wrapped distance
C23_Witness ==
    /\ fx.kind = "lookup" /\ fx.done /\ fx.d >= TableLength /\ fx.row > 1
    /\ \E i \in 1..Len(fx.table) : fx.table[i] = fx.d % TableLength

\* C24: segment i contributes floor(length_i / total_length * total_points)
\* rows, and the table has at least total_points - number_of_segments and at
\* most total_points rows.
C24_RowBudget ==
    fx.kind = "rows" /\ fx.built
        => /\ \A i \in 1..Len(fx.lengths) :
                 /\ fx.n[i] * SumSeq(fx.lengths) <= fx.lengths[i] * fx.points
                 /\ fx.lengths[i] * fx.points < (fx.n[i] + 1) * SumSeq(fx.lengths)
           /\ fx.rows >= fx.points - Len(fx.lengths)
           /\ fx.rows <= fx.points

\* a road of several segments whose table lost rows to the truncation
C24_Witness ==
    fx.kind = "rows" /\ fx.built /\ Len(fx.lengths) >= 2 /\ fx.rows < fx.points /\ fx.rows > 0

\* C25: for every oldest and newest trail distance of a tick the trail
\* drawing draws at least one line segment.
C25_TrailDrawsASegment == fx.kind = "trail" /\ fx.done => fx.segments >= 1

\* C26: an effect emitted for an entity in a render pass has the color the
\* entity's body was drawn with in that pass.
C26_EffectColorIsSnapshotColor ==
    fx.kind = "tick" /\ fx.emitColor # NoColor => fx.emitColor = fx.snapColor

\* C27: the render thread never ends abnormally: it is never found dead
\* after the read of an entity's recent-distance samples.
C27_RenderTickCompletes == rpc # "dead"

\* C28: in every render pass the effect pool is pruned exactly once, and
\* before the entity is drawn, before an effect is emitted and before an
\* effect is drawn in that pass.
C28_PruneOnceBeforeDrawing ==
    fx.kind = "tick" =>
        /\ fx.prunes <= 1
        /\ (fx.entDrawn \/ fx.emitColor # NoColor \/ fx.drawn # <<>>) => fx.prunes = 1
        /\ TickOrder[fx.tpc] = "frame" => fx.prunes = 1

\* a second pass at its end: a bomb was pruned, the entity drawn, a bomb emitted
\* and the pool drawn
C28_Witness ==
    /\ fx.kind = "tick"
    /\ fx.tick = 1
    /\ TickOrder[fx.tpc] = "frame"
    /\ fx.prunes = 1 /\ fx.removed >= 1
    /\ fx.entDrawn /\ fx.emitColor # NoColor /\ fx.fxDrawn

C30_NextDueAfterNow ==
    fx.kind = "throw" /\ fx.done /\ fx.result = "bomb" => fx.tNext > fx.used


\* C31: after stop() has cleared the running flag, every updater loop that
\* was alive adds at most one further increment to the distance before it exits.
C31_OneIncrementAfterStop ==
    fx.kind = "node" => \A k \in Slots : fx.th[k].seen => fx.th[k].after <= 1

\* C32: while no updater loop is alive the distance changes only by being
\* reset to 0, and the first increment of a loop started after such a time
\* covers no more than the time since its go().
C32_StoppedTimeNotAdded ==
    /\ [](fx.kind = "node" /\ fx.lastFirst # NoFirst =>
            /\ fx.lastFirst.ds = Increment(DefaultSpeed, InitUnit, fx.lastFirst.dt)
            /\ fx.lastFirst.dt <= fx.lastFirst.sinceGo)
    /\ [][fx.kind = "node" /\ NodeAlive(fx.th) = {} /\ fx'.distance # fx.distance
            => fx'.distance = 0]_vars

\* a loop started one clock reading or more after the last one had exited has
\* added its first increment, over a positive time
C32_Witness ==
    /\ fx.kind = "node"
    /\ fx.lastFirst.gap >= 1
    /\ fx.lastFirst.dt >= 1
    /\ fx.distance > 0

====
